---- MODULE Spec2Model ----
(***************************************************************************)
(* A model of ProtoPy's coders: the primitive coders of primitives.py      *)
(* (UnsignedInteger, SignedInteger, Boolean, Enum), its Sequence family    *)
(* (Sequence, Array, String) and the containers of containers.py (Record,  *)
(* Choice).  One coder is constructed at a time; the operations of the     *)
(* Coder protocol are then applied to it over one byte stream.             *)
(*                                                                         *)
(* Integers: TLC's integers are 32 bits wide, so the model's byte has      *)
(* ByteBits bits instead of the code's 8.  Every definition is written     *)
(* with ByteBits where the code writes 8, and nothing else is scaled: the  *)
(* four standard widths, the signed and unsigned natural ranges, the byte  *)
(* orders and capable_of's comparison are the code's.                      *)
(*                                                                         *)
(* Python: the code is Python 2 (iteritems, xrange, cStringIO), so int has *)
(* no from_bytes and _decode_func stays _decode_using_struct.  A raised    *)
(* exception is a result [ok |-> FALSE, err |-> <its class>].              *)
(***************************************************************************)
EXTENDS Integers, Sequences, FiniteSets, TLC

VARIABLES
    coder,   \* the coder (schema) constructed last, or NoCoder
    stream,  \* the bytes of the stream (a StringIO), from its start
    pos,     \* the stream's read position
    wlog,    \* the last successful write_to on the stream: what, where, how long
    last     \* the outcome of the operation run last

vars == <<coder, stream, pos, wlog, last>>

(***************************************************************************)
(* Bounds of the model.                                                    *)
(***************************************************************************)
ByteBits == 2
MaxFeed == 2

(***************************************************************************)
(* Python values that are not always integers: None, an int, a str.        *)
(***************************************************************************)
None == [t |-> "none", v |-> 0, s |-> ""]
PyInt(x) == [t |-> "int", v |-> x, s |-> ""]
PyStr(x) == [t |-> "str", v |-> 0, s |-> x]

RECURSIVE Pow2(_)
Pow2(n) == IF n <= 0 THEN 1 ELSE 2 * Pow2(n - 1)

\* The number of values of one byte: 2 ** 8 in the code.
Radix == Pow2(ByteBits)

Drop(s, n) == SubSeq(s, n + 1, Len(s))
Take(s, n) == SubSeq(s, 1, IF n < Len(s) THEN n ELSE Len(s))

(***************************************************************************)
(* primitives.py: ByteOrder, UnsignedInteger, SignedInteger                *)
(***************************************************************************)
MSB_FIRST == "big"
LSB_FIRST == "little"
ByteOrders == {MSB_FIRST, LSB_FIRST}

STANDARD_WIDTHS == {1, 2, 4, 8}

IntegerKinds == {"UnsignedInteger", "SignedInteger"}

\* The class attribute SIGNED.
SIGNED(kind) == kind = "SignedInteger"

NoMembers == [n \in {} |-> 0]

get_bounds_unsigned_off_by_one(kind, width) ==
    IF SIGNED(kind)
    THEN <<-Pow2(ByteBits * width - 1), Pow2(ByteBits * width - 1) - 1>>
    ELSE <<0, Pow2(ByteBits * width)>>

get_bounds(kind, width) ==
    IF SIGNED(kind)
    THEN <<-Pow2(ByteBits * width - 1), Pow2(ByteBits * width - 1) - 1>>
    ELSE <<0, Pow2(ByteBits * width) - 1>>

Raise(e) == [ok |-> FALSE, err |-> e]

\* UnsignedInteger.__init__, also run by SignedInteger, Boolean and Enum.
\* min_value and max_value are None or PyInt(x); default is any Python value.
UnsignedInteger__init__(kind, default, width, min_value, max_value, byte_order) ==
    IF width \notin STANDARD_WIDTHS THEN Raise("ValueError")
    ELSE IF byte_order \notin ByteOrders THEN Raise("KeyError")
    ELSE LET nat == get_bounds(kind, width)
             lo == IF min_value /= None /\ min_value.v > nat[1]
                   THEN min_value.v ELSE nat[1]
             hi == IF max_value /= None /\ max_value.v < nat[2]
                   THEN max_value.v ELSE nat[2]
         IN [ok |-> TRUE, err |-> "",
             coder |-> [kind |-> kind, width |-> width, min |-> lo, max |-> hi,
                        default |-> default, byte_order |-> byte_order,
                        members |-> NoMembers]]

\* The range of the struct format character of a width ("B", "H", "I", "Q",
\* or "b", "h", "i", "q" for SignedInteger): pack raises struct.error outside it.
struct_range(kind, width) ==
    IF SIGNED(kind)
    THEN <<-Pow2(ByteBits * width - 1), Pow2(ByteBits * width - 1) - 1>>
    ELSE <<0, Pow2(ByteBits * width) - 1>>

\* The place value of byte i (from 1) of `width` bytes in a byte order.
PlaceOf(i, width, byte_order) ==
    Pow2(ByteBits * (IF byte_order = MSB_FIRST THEN width - i ELSE i - 1))

struct_pack_ignoring_byte_order(c, value) ==
    LET r == struct_range(c.kind, c.width)
        u == IF value < 0 THEN value + Pow2(ByteBits * c.width) ELSE value
    IN IF value < r[1] \/ value > r[2] THEN Raise("struct.error")
       ELSE [ok |-> TRUE, err |-> "",
             bytes |-> [i \in 1..c.width |->
                           (u \div PlaceOf(i, c.width, MSB_FIRST)) % Radix]]

\* self.struct.pack(value): two's complement, `width` bytes, in the byte order.
struct_pack(c, value) ==
    LET r == struct_range(c.kind, c.width)
        u == IF value < 0 THEN value + Pow2(ByteBits * c.width) ELSE value
    IN IF value < r[1] \/ value > r[2] THEN Raise("struct.error")
       ELSE [ok |-> TRUE, err |-> "",
             bytes |-> [i \in 1..c.width |->
                           (u \div PlaceOf(i, c.width, c.byte_order)) % Radix]]

RECURSIVE SumBytes(_, _, _, _)
SumBytes(as_bytes, i, width, byte_order) ==
    IF i > Len(as_bytes) THEN 0
    ELSE as_bytes[i] * PlaceOf(i, width, byte_order)
         + SumBytes(as_bytes, i + 1, width, byte_order)

_decode_using_struct_unsigned(c, as_bytes) ==
    IF Len(as_bytes) /= c.width THEN Raise("struct.error")
    ELSE [ok |-> TRUE, err |-> "",
          value |-> SumBytes(as_bytes, 1, c.width, c.byte_order)]

\* self.struct.unpack(as_bytes)[0]: struct.error unless given `width` bytes.
_decode_using_struct(c, as_bytes) ==
    IF Len(as_bytes) /= c.width THEN Raise("struct.error")
    ELSE LET u == SumBytes(as_bytes, 1, c.width, c.byte_order)
             half == Pow2(ByteBits * c.width - 1)
         IN [ok |-> TRUE, err |-> "",
             value |-> IF SIGNED(c.kind) /\ u >= half THEN u - 2 * half ELSE u]

\* Boolean._decode_bool: False for exactly "\x00", True otherwise (1 and 0).
_decode_bool(as_bytes) ==
    [ok |-> TRUE, err |-> "", value |-> IF as_bytes = <<0>> THEN 0 ELSE 1]

_decode_func(c, as_bytes) ==
    IF c.kind = "Boolean" THEN _decode_bool(as_bytes)
    ELSE _decode_using_struct(c, as_bytes)

\* The values of an Enum's members (Holder.values).
MemberValues(c) == {c.members[n] : n \in DOMAIN c.members}

validate_exclusive_max(c, value) ==
    IF c.kind = "Enum" THEN value \in MemberValues(c)
    ELSE c.min <= value /\ value < c.max

\* UnsignedInteger.validate and Enum.validate: FALSE is the ValueError raised.
validate(c, value) ==
    IF c.kind = "Enum" THEN value \in MemberValues(c)
    ELSE c.min <= value /\ value <= c.max

\* UnsignedInteger.encode and Boolean.encode (which never validates).
encode(c, value) ==
    IF c.kind = "Boolean"
    THEN [ok |-> TRUE, err |-> "", bytes |-> IF value /= 0 THEN <<1>> ELSE <<0>>]
    ELSE IF validate(c, value) THEN struct_pack(c, value)
    ELSE Raise("ValueError")

decode_keeping_no_remainder(c, buf) ==
    LET d == _decode_func(c, Take(buf, c.width))
    IN IF ~d.ok THEN d
       ELSE IF validate(c, d.value)
       THEN [ok |-> TRUE, err |-> "", value |-> d.value, remainder |-> <<>>]
       ELSE Raise("ValueError")

\* UnsignedInteger.decode: the value of buf[:width] and the remainder buf[width:].
decode(c, buf) ==
    LET d == _decode_func(c, Take(buf, c.width))
    IN IF ~d.ok THEN d
       ELSE IF validate(c, d.value)
       THEN [ok |-> TRUE, err |-> "", value |-> d.value,
             remainder |-> Drop(buf, c.width)]
       ELSE Raise("ValueError")

\* UnsignedInteger.write_to: the encoding appended to the stream, and its length.
write_to(c, value, s) ==
    LET e == encode(c, value)
    IN IF e.ok
       THEN [ok |-> TRUE, err |-> "", stream |-> s \o e.bytes, n |-> Len(e.bytes)]
       ELSE [ok |-> FALSE, err |-> e.err, stream |-> s, n |-> 0]

\* stream.read(n) at position p: at most n bytes, fewer at the end of the data.
StreamRead(s, p, n) == SubSeq(s, p + 1, IF p + n < Len(s) THEN p + n ELSE Len(s))

\* UnsignedInteger.read_from: `width` bytes read, then decoded; `not len` is
\* never true (len is the builtin), so only a short read raises here.
read_from(c, s, p) ==
    LET mine == StreamRead(s, p, c.width)
        q == p + Len(mine)
    IN IF Len(mine) < c.width
       THEN [ok |-> FALSE, err |-> "ValueError", value |-> 0, pos |-> q]
       ELSE LET d == decode(c, mine)
            IN IF d.ok THEN [ok |-> TRUE, err |-> "", value |-> d.value, pos |-> q]
               ELSE [ok |-> FALSE, err |-> d.err, value |-> 0, pos |-> q]

Min(S) == CHOOSE x \in S : \A y \in S : x <= y

\* UnsignedInteger.capable_of: the first standard width, ascending, with
\* 2 ** (8 * width) >= max_value (Python 2: any int >= None), then
\* cls(width=capable_width, max_value=max_value, min_value=...).
capable_of(kind, max_value, min_value) ==
    LET fit == {w \in STANDARD_WIDTHS :
                   max_value = None \/ Pow2(ByteBits * w) >= max_value.v}
    IN IF fit = {} THEN Raise("ValueError")
       ELSE UnsignedInteger__init__(kind, PyInt(0), Min(fit), min_value, max_value,
                                    MSB_FIRST)

\* Boolean.__init__: a 1-byte UnsignedInteger whose default is False.
Boolean__init__(default, min_value, max_value, byte_order) ==
    UnsignedInteger__init__("Boolean", default, 1, min_value, max_value, byte_order)

\* The names a member map may use, in Python's string order.
Names == <<"A", "B", "C", "D", "E", "F", "G", "H", "I", "J">>

\* sorted(members.keys())[0]
LowestKey(members) ==
    Names[Min({i \in 1..Len(Names) : Names[i] \in DOMAIN members})]

\* Enum.__init__; max_value stands for its **kwargs.  `default not in
\* members.values` tests membership in the bound method dict.values, which
\* raises TypeError whenever a default is given.
Enum__init__(members, width, default, max_value) ==
    IF default /= None THEN Raise("TypeError")
    ELSE LET dflt == IF DOMAIN members /= {} THEN PyStr(LowestKey(members)) ELSE None
             u == UnsignedInteger__init__("Enum", dflt, width, None, max_value,
                                          MSB_FIRST)
         IN IF ~u.ok THEN u
            ELSE [ok |-> TRUE, err |-> "",
                  coder |-> [u.coder EXCEPT !.members = members]]

(***************************************************************************)
(* primitives.py: Sequence, Array, String                                  *)
(***************************************************************************)
NoCoder == [kind |-> "none"]

\* Sequence.__init__.  max_length and length_width are None or PyInt(x).
Sequence__init__(kind, element_coder, max_length, min_length, include_length, length_width) ==
    IF max_length = None /\ length_width = None THEN Raise("ValueError")
    ELSE LET lc == capable_of("UnsignedInteger", max_length, PyInt(min_length))
         IN IF ~lc.ok THEN lc
            ELSE [ok |-> TRUE, err |-> "",
                  coder |-> [kind |-> kind, element_coder |-> element_coder,
                             max |-> max_length, min |-> min_length,
                             include_length |-> include_length,
                             length_width |-> length_width,
                             length_coder |-> lc.coder]]

\* Array.__init__
Array__init__(element_coder, size) ==
    Sequence__init__("Array", element_coder, PyInt(size), size, FALSE, None)

\* String.__init__: element_coder defaults to None.
String__init__(max_length, min_length, include_length, length_width) ==
    Sequence__init__("String", NoCoder, max_length, min_length, include_length,
                     length_width)

Sequence_validate_below_max(c, value) ==
    c.max /= None /\ c.min <= Len(value) /\ Len(value) < c.max.v

\* Sequence.validate: min <= count <= max; Python 2 has count <= None false.
Sequence_validate(c, value) ==
    c.max /= None /\ c.min <= Len(value) /\ Len(value) <= c.max.v

\* Sequence._write_length
_write_length(c, s, value) ==
    IF c.include_length THEN write_to(c.length_coder, Len(value), s)
    ELSE [ok |-> TRUE, err |-> "", stream |-> s, n |-> 0]

\* Sequence._write_elements from element i on; String._write_elements writes
\* the whole value at once.  An element that fails leaves the earlier ones written.
RECURSIVE _write_elements(_, _, _, _)
_write_elements(c, s, value, i) ==
    IF c.kind = "String"
    THEN [ok |-> TRUE, err |-> "", stream |-> s \o value, n |-> Len(value)]
    ELSE IF i > Len(value) THEN [ok |-> TRUE, err |-> "", stream |-> s, n |-> 0]
    ELSE LET w == write_to(c.element_coder, value[i], s)
         IN IF ~w.ok THEN w
            ELSE LET rest == _write_elements(c, w.stream, value, i + 1)
                 IN [rest EXCEPT !.n = rest.n + w.n]

\* Sequence.write_to
Sequence_write_to(c, value, s) ==
    IF ~Sequence_validate(c, value)
    THEN [ok |-> FALSE, err |-> "ValueError", stream |-> s, n |-> 0]
    ELSE LET l == _write_length(c, s, value)
         IN IF ~l.ok THEN l
            ELSE LET e == _write_elements(c, l.stream, value, 1)
                 IN [e EXCEPT !.n = e.n + l.n]

\* Sequence._read_length: -1 without a length prefix.
_read_length(c, s, p) ==
    IF ~c.include_length THEN [ok |-> TRUE, err |-> "", value |-> -1, pos |-> p]
    ELSE read_from(c.length_coder, s, p)

\* [self.element_coder.read_from(stream) for _ in xrange(count)]
RECURSIVE ReadCounted(_, _, _, _)
ReadCounted(c, count, s, p) ==
    IF count <= 0 THEN [ok |-> TRUE, err |-> "", value |-> <<>>, pos |-> p]
    ELSE LET r == read_from(c.element_coder, s, p)
         IN IF ~r.ok THEN [ok |-> FALSE, err |-> r.err, value |-> <<>>, pos |-> r.pos]
            ELSE LET rest == ReadCounted(c, count - 1, s, r.pos)
                 IN [rest EXCEPT !.value = <<r.value>> \o rest.value]

\* The loop of _read_countless over the data read: while data and
\* len(items) < self.max (Python 2: len(items) < None is false).
RECURSIVE CountlessLoop(_, _, _)
CountlessLoop(c, data, items) ==
    IF data = <<>> \/ c.max = None \/ Len(items) >= c.max.v
    THEN [ok |-> TRUE, err |-> "", value |-> items]
    ELSE LET d == decode(c.element_coder, data)
         IN IF ~d.ok THEN [ok |-> FALSE, err |-> d.err, value |-> <<>>]
            ELSE CountlessLoop(c, d.remainder, Append(items, d.value))

_read_countless_stopping_after_items(c, s, p) ==
    LET l == CountlessLoop(c, Drop(s, p), <<>>)
    IN [ok |-> l.ok, err |-> l.err, value |-> l.value,
        pos |-> p + Len(l.value) * c.element_coder.width]

\* Sequence._read_countless: data = stream.read() takes all that is left of the
\* stream, whatever the loop then decodes of it.
_read_countless(c, s, p) ==
    LET l == CountlessLoop(c, Drop(s, p), <<>>)
    IN [ok |-> l.ok, err |-> l.err, value |-> l.value,
        pos |-> IF p < Len(s) THEN Len(s) ELSE p]

\* Sequence._read_elements and String._read_elements (stream.read(count), which
\* reads to the end for a negative count and never raises on a short source).
_read_elements(c, count, s, p) ==
    IF c.kind = "String"
    THEN LET got == IF count < 0 THEN Drop(s, p) ELSE StreamRead(s, p, count)
         IN [ok |-> TRUE, err |-> "", value |-> got, pos |-> p + Len(got)]
    ELSE IF count < 0 THEN _read_countless(c, s, p)
    ELSE ReadCounted(c, count, s, p)

\* Sequence.read_from
Sequence_read_from(c, s, p) ==
    LET l == _read_length(c, s, p)
    IN IF ~l.ok THEN [ok |-> FALSE, err |-> l.err, value |-> <<>>, pos |-> l.pos]
       ELSE LET e == _read_elements(c, l.value, s, l.pos)
            IN IF ~e.ok THEN e
               ELSE IF Sequence_validate(c, e.value) THEN e
               ELSE [ok |-> FALSE, err |-> "ValueError", value |-> <<>>,
                     pos |-> e.pos]

(***************************************************************************)
(* containers.py: Record and Choice                                        *)
(*                                                                         *)
(* The containers call their members through the stream interface of the   *)
(* Coder protocol, coder.encode(value, stream) and coder.decode(stream),   *)
(* which the tests also use.  The module that declares it (coders.py) is   *)
(* not among the sources; primitives.py provides the same two operations   *)
(* as write_to and read_from, and that is what a member does here.         *)
(***************************************************************************)
Coder_encode(c, value, s) == write_to(c, value, s)

Coder_decode(c, s, p) == read_from(c, s, p)

NotCoder == [kind |-> "notcoder"]

\* An `order` attribute: a tuple of names; NoOrder when the class has none.
NoOrder == [given |-> FALSE, names |-> <<>>]
Order(names) == [given |-> TRUE, names |-> names]

InSeq(x, q) == \E i \in 1..Len(q) : q[i] = x

\* The loop of RecordBase.__new__ filling the OrderedDict `members`: a name
\* stored a second time keeps its first place.
RECURSIVE FillMembers(_, _, _, _)
FillMembers(serializables, names, i, members) ==
    IF i > Len(names) THEN [ok |-> TRUE, err |-> "", members |-> members]
    ELSE IF names[i] \notin DOMAIN serializables THEN Raise("ValueError")
    ELSE FillMembers(serializables, names, i + 1,
                     IF InSeq(names[i], members) THEN members
                     ELSE Append(members, names[i]))

\* sorted by name: the order a dict of the attributes would give instead.
RECURSIVE SortedNames(_, _)
SortedNames(S, i) ==
    IF i > Len(Names) THEN <<>>
    ELSE (IF Names[i] \in S THEN <<Names[i]>> ELSE <<>>) \o SortedNames(S, i + 1)

RecordBase__new__by_attribute_name(attrs, order) ==
    IF ~order.given THEN Raise("ValueError")
    ELSE LET sz == {n \in DOMAIN attrs : attrs[n] /= NotCoder}
             serializables == [n \in sz |-> attrs[n]]
             f == FillMembers(serializables, order.names, 1, <<>>)
         IN IF ~f.ok THEN f
            ELSE [ok |-> TRUE, err |-> "",
                  coder |-> [kind |-> "Record", order |-> order.names,
                             members |-> SortedNames(
                                 {f.members[i] : i \in 1..Len(f.members)}, 1),
                             fields |-> serializables]]

\* RecordBase.__new__: attrs maps the attribute names of the class body to a
\* coder or to NotCoder (any other attribute).  The class keeps its `order`
\* attribute beside the `members` compiled from it.
RecordBase__new__(attrs, order) ==
    IF ~order.given THEN Raise("ValueError")
    ELSE LET sz == {n \in DOMAIN attrs : attrs[n] /= NotCoder}
             serializables == [n \in sz |-> attrs[n]]
             f == FillMembers(serializables, order.names, 1, <<>>)
         IN IF ~f.ok THEN f
            ELSE [ok |-> TRUE, err |-> "",
                  coder |-> [kind |-> "Record", order |-> order.names,
                             members |-> f.members, fields |-> serializables]]

\* RecordBase.encode from member i on.
RECURSIVE RecordBase_encode(_, _, _, _)
RecordBase_encode(c, value, s, i) ==
    IF i > Len(c.members) THEN [ok |-> TRUE, err |-> "", stream |-> s, n |-> 0]
    ELSE LET name == c.members[i]
             w == Coder_encode(c.fields[name], value[name], s)
         IN IF ~w.ok THEN w
            ELSE LET rest == RecordBase_encode(c, value, w.stream, i + 1)
                 IN [rest EXCEPT !.n = rest.n + w.n]

\* The dict comprehension of RecordBase.decode from member i on.
RECURSIVE DecodeMembers(_, _, _, _, _)
DecodeMembers(c, s, p, i, kwargs) ==
    IF i > Len(c.members) THEN [ok |-> TRUE, err |-> "", value |-> kwargs, pos |-> p]
    ELSE LET name == c.members[i]
             r == Coder_decode(c.fields[name], s, p)
         IN IF ~r.ok THEN [ok |-> FALSE, err |-> r.err, value |-> kwargs, pos |-> r.pos]
            ELSE DecodeMembers(c, s, r.pos, i + 1,
                               [n \in DOMAIN kwargs \cup {name} |->
                                   IF n = name THEN r.value ELSE kwargs[n]])

NoKwargs == [n \in {} |-> 0]

MemberSet(c) == {c.members[i] : i \in 1..Len(c.members)}

\* Record.__init__: the kwargs that name members, the other members defaulted.
Record__init__(c, kwargs) ==
    [n \in MemberSet(c) |->
        IF n \in DOMAIN kwargs THEN kwargs[n] ELSE c.fields[n].default.v]

\* RecordBase.decode
RecordBase_decode(c, s, p) ==
    LET d == DecodeMembers(c, s, p, 1, NoKwargs)
    IN IF ~d.ok THEN d ELSE [d EXCEPT !.value = Record__init__(c, d.value)]

\* The variant classes a Choice may name, by class name: Records with no
\* member (as Reset of tests/dummy.py) and with one 1-byte member.
VariantClass(name) ==
    IF name \in {"B", "D", "F", "H", "J"}
    THEN RecordBase__new__(NoKwargs, Order(<<>>)).coder
    ELSE RecordBase__new__(
             [n \in {"A"} |-> UnsignedInteger__init__(
                 "UnsignedInteger", PyInt(0), 1, None, None, MSB_FIRST).coder],
             Order(<<"A">>)).coder

Range(f) == {f[x] : x \in DOMAIN f}

\* A `variants` attribute: a dict of tags to classes, here to their names;
\* NoVariants when the class has none.
NoVariants == [given |-> FALSE, map |-> <<>>]
Variants(m) == [given |-> TRUE, map |-> m]

\* ChoiceBase.__new__: attr is the variants attribute; tag_width is None or
\* PyInt(x).
ChoiceBase__new__(attr, tag_width) ==
    IF ~attr.given THEN Raise("ValueError")
    ELSE IF Cardinality(Range(attr.map)) /= Cardinality(DOMAIN attr.map)
    THEN Raise("ValueError")
    ELSE LET variants == attr.map
             tw == IF tag_width = None THEN 1 ELSE tag_width.v
             enum == [n \in Range(variants) |->
                         CHOOSE t \in DOMAIN variants : variants[t] = n]
         IN IF Cardinality(DOMAIN variants) > Pow2(ByteBits * tw)
            THEN Raise("ValueError")
            ELSE LET e == Enum__init__(enum, tw, None, None)
                 IN IF ~e.ok THEN e
                    ELSE [ok |-> TRUE, err |-> "",
                          coder |-> [kind |-> "Choice", variants |-> variants,
                                     tag_width |-> tw, tag_field |-> e.coder]]

\* ChoiceBase.encode: the tag, then variant_cls.encode(stream), a call that
\* passes the stream where encode(self, value, stream) expects the value and
\* passes nothing for the stream: Python raises TypeError at the call.
ChoiceBase_encode(c, value, s) ==
    LET t == Coder_encode(c.tag_field, value.tag, s)
    IN IF ~t.ok THEN t
       ELSE IF value.tag \notin DOMAIN c.variants
       THEN [ok |-> FALSE, err |-> "AttributeError", stream |-> t.stream, n |-> 0]
       ELSE [ok |-> FALSE, err |-> "TypeError", stream |-> t.stream, n |-> 0]

\* Choice.__init__ with a value given.
Choice__init__(tag, value) == [tag |-> tag, value |-> value]

\* ChoiceBase.decode
ChoiceBase_decode(c, s, p) ==
    LET t == Coder_decode(c.tag_field, s, p)
    IN IF ~t.ok THEN [ok |-> FALSE, err |-> t.err, value |-> <<>>, pos |-> t.pos]
       ELSE IF t.value \notin DOMAIN c.variants
       THEN [ok |-> FALSE, err |-> "AttributeError", value |-> <<>>, pos |-> t.pos]
       ELSE LET v == RecordBase_decode(VariantClass(c.variants[t.value]), s, t.pos)
            IN IF ~v.ok THEN [ok |-> FALSE, err |-> v.err, value |-> <<>>, pos |-> v.pos]
               ELSE [ok |-> TRUE, err |-> "", value |-> Choice__init__(t.value, v.value),
                     pos |-> v.pos]

(***************************************************************************)
(* The inputs the operations are tried on.                                 *)
(***************************************************************************)
MaxOrder == 3

IsPrimitive(c) == c.kind \in {"UnsignedInteger", "SignedInteger", "Boolean", "Enum"}
IsSequence(c) == c.kind \in {"Sequence", "Array", "String"}

MinOpts == {None, PyInt(1)}
MaxOpts == {None, PyInt(0), PyInt(2)}
DefaultOpts == {PyInt(0)}
WidthOpts == STANDARD_WIDTHS \cup {3}

\* Member maps of an Enum: names to unsigned values, one beyond a byte's range.
MemberMaps ==
    UNION {[D -> {0, 1, 2, Radix}] : D \in {{}, {"A"}, {"A", "B"}}}

\* The integers a primitive coder is tried on: around its bounds, around
\* zero, its members, and a value whose bytes differ.
IntInputs(c) ==
    {c.min - 1, c.min, c.min + 1, c.max - 1, c.max, c.max + 1,
     -1, 0, 1, Radix, Radix + 2} \cup MemberValues(c)

\* The lists a Sequence is tried on: of 0 to Radix + 1 elements 1 and 2.
ListInputs == {[i \in 1..n |-> ((i + k) % 2) + 1] : n \in 0..(Radix + 1), k \in 0..1}

ElementCoders ==
    {UnsignedInteger__init__("UnsignedInteger", PyInt(0), w, None, None,
                             MSB_FIRST).coder : w \in {1, 2}}

MaxLengthOpts ==
    {None} \cup {PyInt(m) : m \in {0, 1, 2, Radix - 1, Radix,
                                   Pow2(ByteBits * 8) + 1}}
MinLengthOpts == {-1, 0, 1}
LengthWidthOpts == {None, PyInt(2)}

\* The attributes of a Record's class body, by name: three coders and an
\* attribute that is no coder.
Attribute(n) ==
    IF n = "A" THEN UnsignedInteger__init__(
        "UnsignedInteger", PyInt(0), 1, None, None, MSB_FIRST).coder
    ELSE IF n = "B" THEN UnsignedInteger__init__(
        "UnsignedInteger", PyInt(0), 2, None, None, LSB_FIRST).coder
    ELSE IF n = "C" THEN UnsignedInteger__init__(
        "SignedInteger", PyInt(0), 1, None, None, MSB_FIRST).coder
    ELSE NotCoder

AttrOpts ==
    {[n \in D \cup {"D"} |-> Attribute(n)] : D \in SUBSET {"A", "B", "C"}}

SeqsUpTo(S, n) == UNION {[1..k -> S] : k \in 0..n}

OrderOpts == {NoOrder} \cup {Order(q) : q \in SeqsUpTo({"A", "B", "C", "D"}, MaxOrder)}

RecordInputs(c) == [MemberSet(c) -> {0, 1}]

\* variants of k tags 0..k-1, each its own class; a tag beyond one byte; two
\* tags of one class; no variants attribute.
VariantOpts ==
    {NoVariants}
    \cup {Variants([t \in 0..(k - 1) |-> Names[t + 1]]) : k \in 0..(Radix + 1)}
    \cup {Variants([t \in {Radix} |-> "A"]), Variants([t \in {1, 2} |-> "A"]),
          Variants([t \in {1, Radix * Radix} |-> Names[(t % 2) + 1]])}
TagWidthOpts == {None, PyInt(1), PyInt(2), PyInt(3)}

ChoiceInputs(c) ==
    UNION {{Choice__init__(t, v) : v \in RecordInputs(VariantClass(c.variants[t]))}
           : t \in DOMAIN c.variants}

FeedBytes == {1, Radix - 1}

(***************************************************************************)
(* The state machine.                                                      *)
(***************************************************************************)
RECURSIVE Logged(_, _)
Logged(log, i) == IF i > Len(log) THEN 0 ELSE log[i].n + Logged(log, i + 1)

\* The bytes of the stream that no logged write_to put there.
Unlogged == Len(stream) - Logged(wlog, 1)

Init ==
    /\ coder = NoCoder
    /\ stream = <<>>
    /\ pos = 0
    /\ wlog = <<>>
    /\ last = [op |-> "import", ok |-> TRUE, err |-> ""]

\* What a constructor or a class definition returned or raised.
Constructed(op, r, args) ==
    /\ coder' = IF r.ok THEN r.coder ELSE NoCoder
    /\ last' = [op |-> op, ok |-> r.ok, err |-> r.err, args |-> args]

\* A behaviour constructs one coder, at its start, and tries it on one stream.
NewStream == last.op = "import" /\ UNCHANGED <<stream, pos, wlog>>

NewInteger ==
    /\ NewStream
    /\ \E kind \in IntegerKinds, default \in DefaultOpts, width \in WidthOpts,
       min_value \in MinOpts, max_value \in MaxOpts, byte_order \in ByteOrders :
        Constructed("UnsignedInteger.__init__",
            UnsignedInteger__init__(kind, default, width, min_value, max_value,
                                    byte_order),
            [kind |-> kind, default |-> default, width |-> width,
             min_value |-> min_value, max_value |-> max_value])

NewBoolean ==
    /\ NewStream
    /\ \E min_value \in MinOpts, max_value \in MaxOpts :
        Constructed("Boolean.__init__",
            Boolean__init__(PyInt(0), min_value, max_value, MSB_FIRST),
            [min_value |-> min_value, max_value |-> max_value])

NewEnum ==
    /\ NewStream
    /\ \E members \in MemberMaps, width \in {1, 2, 3}, default \in {None, PyInt(1)},
          max_value \in {None, PyInt(1)} :
        Constructed("Enum.__init__", Enum__init__(members, width, default, max_value),
            [members |-> members, width |-> width, default |-> default,
             max_value |-> max_value])

CapableOf ==
    /\ NewStream
    /\ \E m \in {0, 1, Radix - 1, Radix, Radix + 1, Radix * Radix - 1, Radix * Radix,
              Pow2(ByteBits * 4), Pow2(ByteBits * 8) - 1, Pow2(ByteBits * 8),
              Pow2(ByteBits * 8) + 1} :
        Constructed("capable_of", capable_of("UnsignedInteger", PyInt(m), None),
            [max_value |-> m])

NewSequence ==
    /\ NewStream
    /\ \E element_coder \in ElementCoders, max_length \in MaxLengthOpts,
       min_length \in MinLengthOpts, include_length \in BOOLEAN,
       length_width \in LengthWidthOpts :
        Constructed("Sequence.__init__",
            Sequence__init__("Sequence", element_coder, max_length, min_length,
                             include_length, length_width),
            [max_length |-> max_length, min_length |-> min_length,
             include_length |-> include_length, length_width |-> length_width])

NewArray ==
    /\ NewStream
    /\ \E element_coder \in ElementCoders, size \in {0, 1, 2} :
        Constructed("Array.__init__", Array__init__(element_coder, size),
            [size |-> size])

NewString ==
    /\ NewStream
    /\ \E max_length \in {None, PyInt(0), PyInt(2), PyInt(Radix)},
       min_length \in {0, 1}, include_length \in BOOLEAN,
       length_width \in {None, PyInt(1)} :
        Constructed("String.__init__",
            String__init__(max_length, min_length, include_length, length_width),
            [max_length |-> max_length, min_length |-> min_length,
             include_length |-> include_length, length_width |-> length_width])

DefineRecord ==
    /\ NewStream
    /\ \E attrs \in AttrOpts, order \in OrderOpts :
        Constructed("RecordBase.__new__", RecordBase__new__(attrs, order),
            [attrs |-> attrs, order |-> order])

DefineChoice ==
    /\ NewStream
    /\ \E variants \in VariantOpts, tag_width \in TagWidthOpts :
        Constructed("ChoiceBase.__new__", ChoiceBase__new__(variants, tag_width),
            [variants |-> variants, tag_width |-> tag_width])

\* coder.encode(value) of a primitive coder (it touches no stream: it is
\* tried before the stream is used).
Encode ==
    /\ IsPrimitive(coder)
    /\ stream = <<>>
    /\ \E v \in IntInputs(coder) :
        LET e == encode(coder, v)
        IN last' = [op |-> "encode", ok |-> e.ok, err |-> e.err, arg |-> v,
                    bytes |-> IF e.ok THEN e.bytes ELSE <<>>]
    /\ UNCHANGED <<coder, stream, pos, wlog>>

\* coder.decode(buf) of a primitive coder, buf being what is left of the stream.
Decode ==
    /\ IsPrimitive(coder)
    /\ LET buf == Drop(stream, pos)
           d == decode(coder, buf)
       IN last' = [op |-> "decode", ok |-> d.ok, err |-> d.err, arg |-> buf,
                   at |-> pos,
                   value |-> IF d.ok THEN d.value ELSE 0,
                   remainder |-> IF d.ok THEN d.remainder ELSE <<>>]
    /\ UNCHANGED <<coder, stream, pos, wlog>>

\* The stream and the log after a write, and what the write returned.
Wrote(op, w, v) ==
    /\ stream' = w.stream
    /\ wlog' = IF w.ok THEN Append(wlog, [at |-> Len(stream), n |-> w.n, value |-> v])
               ELSE wlog
    /\ last' = [op |-> op, ok |-> w.ok, err |-> w.err, arg |-> v,
                at |-> Len(stream), n |-> w.n]
    /\ UNCHANGED <<coder, pos>>

\* A stream takes one write, at its start (the tests use a new StringIO for
\* each value); what follows it on the stream is fed.
CanWrite == stream = <<>> /\ wlog = <<>>

\* coder.write_to(value, stream) of a primitive coder or a Sequence.
WriteTo ==
    /\ CanWrite
    /\ \/ /\ IsPrimitive(coder)
          /\ \E v \in IntInputs(coder) : Wrote("write_to", write_to(coder, v, stream), v)
       \/ /\ IsSequence(coder)
          /\ \E v \in ListInputs :
                Wrote("write_to", Sequence_write_to(coder, v, stream), v)

\* The position after a read, and what it returned.
Read(op, r) ==
    /\ pos' = r.pos
    /\ last' = [op |-> op, ok |-> r.ok, err |-> r.err, at |-> pos,
                value |-> IF r.ok THEN r.value ELSE 0]
    /\ UNCHANGED <<coder, stream, wlog>>

\* coder.read_from(stream) of a primitive coder or a Sequence.
ReadFrom ==
    \/ /\ IsPrimitive(coder)
       /\ Read("read_from", read_from(coder, stream, pos))
    \/ /\ IsSequence(coder)
       /\ Read("read_from", Sequence_read_from(coder, stream, pos))

\* Record.encode(value, stream) and Choice.encode(value, stream).
ContainerEncode ==
    /\ CanWrite
    /\ \/ /\ coder.kind = "Record"
          /\ \E v \in RecordInputs(coder) :
                Wrote("encode", RecordBase_encode(coder, v, stream, 1), v)
       \/ /\ coder.kind = "Choice"
          /\ \E v \in ChoiceInputs(coder) :
                Wrote("encode", ChoiceBase_encode(coder, v, stream), v)

\* Record.decode(stream) and Choice.decode(stream).
ContainerDecode ==
    \/ /\ coder.kind = "Record"
       /\ Read("decode", RecordBase_decode(coder, stream, pos))
    \/ /\ coder.kind = "Choice"
       /\ Read("decode", ChoiceBase_decode(coder, stream, pos))

\* coder.default_value(), and whether coder.validate accepts it.
DefaultValue ==
    /\ stream = <<>>
    /\ \/ /\ IsPrimitive(coder)
          /\ last' = [op |-> "default_value", ok |-> TRUE, err |-> "",
                      value |-> coder.default,
                      valid |-> coder.default.t = "int"
                                /\ validate(coder, coder.default.v)]
       \/ /\ IsSequence(coder)
          /\ last' = [op |-> "default_value", ok |-> TRUE, err |-> "",
                      value |-> <<>>,
                      valid |-> Sequence_validate(coder, <<>>)]
    /\ UNCHANGED <<coder, stream, pos, wlog>>

\* Someone else puts a byte on the stream the coder will read.
Feed ==
    /\ coder /= NoCoder
    /\ Unlogged < MaxFeed
    /\ \E b \in FeedBytes : stream' = Append(stream, b)
    /\ last' = [op |-> "feed", ok |-> TRUE, err |-> ""]
    /\ UNCHANGED <<coder, pos, wlog>>

Next ==
    \/ NewInteger \/ NewBoolean \/ NewEnum \/ CapableOf
    \/ NewSequence \/ NewArray \/ NewString
    \/ DefineRecord \/ DefineChoice
    \/ Encode \/ Decode \/ WriteTo \/ ReadFrom
    \/ ContainerEncode \/ ContainerDecode
    \/ DefaultValue \/ Feed

Spec == Init /\ [][Next]_vars

(***************************************************************************)
(* The claims.                                                             *)
(***************************************************************************)
InRange(c, v) == c.min <= v /\ v <= c.max

\* The operation run last read at the offset of the stream's logged write.
AtTheWrite == wlog /= <<>> /\ last.at = wlog[1].at

\* C1: for UnsignedInteger and SignedInteger, of every standard width and
\* either byte order, and every value v in [min, max]: encode(v) and
\* write_to(v) give exactly `width` bytes; read_from and decode at those
\* bytes give v again and take exactly `width` bytes, whatever follows them.
C1_IntegerRoundTrip ==
    coder.kind \in IntegerKinds =>
        /\ (last.op = "encode" /\ InRange(coder, last.arg))
              => (last.ok /\ Len(last.bytes) = coder.width)
        /\ (last.op = "write_to" /\ InRange(coder, last.arg))
              => (last.ok /\ last.n = coder.width
                  /\ Len(stream) = last.at + coder.width)
        /\ (last.op = "read_from" /\ AtTheWrite)
              => (last.ok /\ last.value = wlog[1].value
                  /\ pos = last.at + coder.width)
        /\ (last.op = "decode" /\ AtTheWrite)
              => (last.ok /\ last.value = wlog[1].value
                  /\ last.remainder = Drop(stream, last.at + coder.width))

\* A negative value of an 8-byte little-endian SignedInteger read back, with
\* more bytes behind it on the stream.
C1_Witness ==
    /\ coder.kind = "SignedInteger" /\ coder.width = 8
    /\ coder.byte_order = LSB_FIRST
    /\ last.op = "read_from" /\ last.ok /\ AtTheWrite
    /\ last.value = wlog[1].value /\ last.value < 0
    /\ pos < Len(stream)

EncodesLast == last.op \in {"encode", "write_to"}

\* C2, as claimed: every primitive coder (UnsignedInteger, SignedInteger,
\* Boolean, Enum) fails to encode a value outside [min, max], and encodes min
\* and max.
C2_AsClaimed ==
    (IsPrimitive(coder) /\ EncodesLast) =>
        /\ ~InRange(coder, last.arg) => ~last.ok
        /\ (coder.min <= coder.max /\ last.arg \in {coder.min, coder.max}) => last.ok

\* C2, amended: UnsignedInteger and SignedInteger fail with a validation error
\* (ValueError) outside [min, max] and encode min and max when min <= max;
\* Enum fails with a validation error for every value that is no member,
\* inside [min, max] or not; Boolean.encode validates nothing and gives one
\* byte, 0 or 1, for every value.
C2_Bounds ==
    (IsPrimitive(coder) /\ EncodesLast) =>
        /\ coder.kind \in IntegerKinds =>
              /\ ~InRange(coder, last.arg) => (~last.ok /\ last.err = "ValueError")
              /\ (coder.min <= coder.max /\ last.arg \in {coder.min, coder.max})
                    => last.ok
        /\ coder.kind = "Enum" =>
              (last.arg \notin MemberValues(coder)
                  => (~last.ok /\ last.err = "ValueError"))
        /\ (coder.kind = "Boolean" /\ last.op = "encode") =>
              (last.ok /\ last.bytes = IF last.arg = 0 THEN <<0>> ELSE <<1>>)

\* A value inside the natural range of its width refused because it is above
\* the user's max_value.
C2_Witness ==
    /\ coder.kind = "UnsignedInteger" /\ coder.min = 1 /\ coder.max = 2
    /\ last.op = "encode" /\ last.arg = coder.max + 1
    /\ ~last.ok /\ last.err = "ValueError"

\* C3: for an Enum of any member map and width, encoding or decoding a value
\* that is no member fails, and every member encodes to `width` bytes and
\* decodes back to itself.
C3_EnumClosure ==
    coder.kind = "Enum" =>
        /\ (EncodesLast /\ last.arg \notin MemberValues(coder)) => ~last.ok
        /\ (last.op \in {"decode", "read_from"} /\ last.ok)
              => last.value \in MemberValues(coder)
        /\ (last.op = "encode" /\ last.arg \in MemberValues(coder))
              => (last.ok /\ Len(last.bytes) = coder.width)
        /\ (last.op = "write_to" /\ last.arg \in MemberValues(coder))
              => (last.ok /\ last.n = coder.width)
        /\ (last.op = "read_from" /\ AtTheWrite)
              => (last.ok /\ last.value = wlog[1].value)

\* The names of `order`, each at its first place.
RECURSIVE FirstPlaces(_, _)
FirstPlaces(names, i) ==
    IF i > Len(names) THEN <<>>
    ELSE (IF \E j \in 1..(i - 1) : names[j] = names[i] THEN <<>> ELSE <<names[i]>>)
         \o FirstPlaces(names, i + 1)

\* The members' encodings of a Record value, one after the other.
RECURSIVE Concatenated(_, _, _, _)
Concatenated(c, value, names, i) ==
    IF i > Len(names) THEN <<>>
    ELSE encode(c.fields[names[i]], value[names[i]]).bytes
         \o Concatenated(c, value, names, i + 1)

VariantBytes(c, v) ==
    Concatenated(VariantClass(c.variants[v.tag]), v.value,
                 VariantClass(c.variants[v.tag]).members, 1)

\* C5: encoding a Choice value writes the tag, as an unsigned integer of the
\* tag width, and then the selected variant's value as the variant registered
\* under the tag encodes it.
C5_ChoiceEncoding ==
    (coder.kind = "Choice" /\ last.op = "encode"
        /\ encode(coder.tag_field, last.arg.tag).ok)
    => /\ last.ok
       /\ stream = encode(coder.tag_field, last.arg.tag).bytes
                   \o VariantBytes(coder, last.arg)

\* The standard widths whose natural range holds every tag.
WidthsHolding(tags) ==
    {w \in STANDARD_WIDTHS : \A t \in tags : 0 <= t /\ t <= Pow2(ByteBits * w) - 1}

\* C6: a Choice defined with no tag_width has the smallest standard width
\* that holds all its tags, and the tag coder of every Choice that was
\* defined can encode each of its tags.
C6_TagWidth ==
    (last.op = "ChoiceBase.__new__" /\ last.ok) =>
        /\ \A t \in DOMAIN coder.variants : encode(coder.tag_field, t).ok
        /\ last.args.tag_width = None =>
              /\ WidthsHolding(DOMAIN coder.variants) /= {}
              /\ coder.tag_width = Min(WidthsHolding(DOMAIN coder.variants))

\* What write_to of a length-prefixed Sequence is to put on the stream: the
\* count in the length coder's width, then the elements.
RECURSIVE ElementBytes(_, _, _)
ElementBytes(c, value, i) ==
    IF i > Len(value) THEN <<>>
    ELSE encode(c.element_coder, value[i]).bytes \o ElementBytes(c, value, i + 1)

Prefixed(c, value) ==
    struct_pack(c.length_coder, Len(value)).bytes \o ElementBytes(c, value, 1)

\* C7: a Sequence with include_length and min_length <= max_length writes
\* every list of min_length to max_length elements, max_length included, as
\* the count and then the elements, returns the number of bytes written, and
\* reads the same list back.
C7_PrefixedSequence ==
    (coder.kind = "Sequence" /\ coder.include_length /\ coder.max /= None
        /\ coder.min <= coder.max.v) =>
        /\ (last.op = "write_to" /\ coder.min <= Len(last.arg)
              /\ Len(last.arg) <= coder.max.v)
              => /\ last.ok
                 /\ stream = Prefixed(coder, last.arg)
                 /\ last.n = Len(stream)
        /\ (last.op = "read_from" /\ AtTheWrite)
              => (last.ok /\ last.value = wlog[1].value)

\* C8: read_from of a Sequence or Array with no length prefix gives the empty
\* list on a depleted source (where the empty list is allowed), and on a
\* source of more than max_length elements gives max_length elements and
\* takes their bytes only, so that the next coder reads what follows.
C8_Countless ==
    (coder.kind \in {"Sequence", "Array"} /\ ~coder.include_length
        /\ coder.max /= None /\ last.op = "read_from") =>
        /\ (last.at = Len(stream) /\ coder.min <= 0 /\ 0 <= coder.max.v)
              => (last.ok /\ last.value = <<>>)
        /\ (coder.min <= coder.max.v
              /\ Len(stream) - last.at > coder.max.v * coder.element_coder.width)
              => /\ last.ok
                 /\ Len(last.value) = coder.max.v
                 /\ pos = last.at + coder.max.v * coder.element_coder.width

\* C9: the default_value() of every coder that was constructed passes the
\* coder's validate().
C9_DefaultIsValid ==
    last.op = "default_value" => last.valid

\* The standard widths whose natural range holds m.
WidthsCovering(m) ==
    {w \in STANDARD_WIDTHS : get_bounds("UnsignedInteger", w)[1] <= m
                              /\ m <= get_bounds("UnsignedInteger", w)[2]}

\* C10: capable_of(max_value) gives a coder of the smallest standard width
\* whose natural range holds max_value, which therefore accepts max_value, and
\* fails only when no standard width holds it.
C10_CapableOf ==
    last.op = "capable_of" =>
        IF WidthsCovering(last.args.max_value) = {} THEN ~last.ok
        ELSE /\ last.ok
             /\ coder.width = Min(WidthsCovering(last.args.max_value))
             /\ validate(coder, last.args.max_value)

\* The names of the class body's attributes that are coders.
DeclaredCoders(attrs) == {n \in DOMAIN attrs : attrs[n] /= NotCoder}

Unique(q) == \A i, j \in 1..Len(q) : q[i] = q[j] => i = j

\* C11: defining a Record fails when a declared coder is missing from
\* `order`, when `order` names an attribute that is no coder, and when
\* `order` names one twice; a Record that was defined has as its members the
\* names of `order`, each once, in that order, one coder to a name.
C11_RecordDefinition ==
    (last.op = "RecordBase.__new__" /\ last.args.order.given) =>
        LET names == last.args.order.names
            declared == DeclaredCoders(last.args.attrs)
        IN /\ (\E n \in declared : ~InSeq(n, names)) => ~last.ok
           /\ (\E i \in 1..Len(names) : names[i] \notin declared) => ~last.ok
           /\ ~Unique(names) => ~last.ok
           /\ last.ok => /\ coder.members = names
                         /\ Unique(coder.members)
                         /\ \A i \in 1..Len(names) :
                                coder.fields[names[i]] = last.args.attrs[names[i]]

\* C12: a Sequence that was constructed has 0 <= min_length <= max_length
\* (a max_length below min_length, or a negative min_length, fails at
\* construction), and has no max_length only if it writes no length prefix.
C12_SequenceBounds ==
    (last.op = "Sequence.__init__" /\ last.ok) =>
        /\ 0 <= coder.min
        /\ coder.max /= None => coder.min <= coder.max.v
        /\ coder.max = None => ~coder.include_length

\* C13: an Enum constructed with no default has as its default value the
\* smallest of its member values; constructing one with a default succeeds,
\* and keeps that default, when the default is a member value, and fails
\* when it is not.
C13_EnumDefault ==
    /\ (last.op = "Enum.__init__" /\ last.args.default /= None
          /\ last.args.width \in STANDARD_WIDTHS) =>
          /\ last.ok <=> last.args.default.v \in Range(last.args.members)
          /\ last.ok => coder.default = last.args.default
    /\ (coder.kind = "Enum" /\ last.op = "default_value"
          /\ MemberValues(coder) /= {}) =>
          last.value = PyInt(Min(MemberValues(coder)))

\* C14: a Sequence constructed with length_width = w, with a max_length or
\* without, writes and reads the count of its elements in exactly w bytes.
C14_LengthWidth ==
    (coder.kind = "Sequence" /\ coder.include_length /\ coder.length_width /= None) =>
        /\ coder.length_coder.width = coder.length_width.v
        /\ (last.op = "write_to" /\ last.ok) =>
              last.n = coder.length_width.v
                       + Len(last.arg) * coder.element_coder.width
        /\ (last.op = "read_from" /\ last.ok) =>
              pos = last.at + coder.length_width.v
                    + Len(last.value) * coder.element_coder.width

\* The length prefix read_from decoded, at the place where it started.
Announced == _read_length(coder, stream, last.at)

\* C15: when read_from of a length-prefixed Sequence or String gives a
\* value, the value has as many elements (bytes, for a String) as the length
\* prefix decoded says; when the source holds fewer bytes than the prefix
\* announces, read_from fails.
C15_ShortSource ==
    (coder.kind \in {"Sequence", "String"} /\ coder.include_length
        /\ last.op = "read_from" /\ last.ok) =>
        /\ Announced.ok
        /\ Len(last.value) = Announced.value

====
